---------------------------- MODULE Spec2Model ----------------------------
(***************************************************************************)
(* A model of ape's NetworkManager (src/src/ape/managers/networks.py) and  *)
(* PluginManager (src/src/ape/plugins/__init__.py).                        *)
(*                                                                         *)
(* Python strings are sequences of one-character strings, so formatting    *)
(* (f"{e}:{n}:{p}"), str.split, str.replace, startswith and endswith are   *)
(* computed character by character.  Python's None is the value None.      *)
(***************************************************************************)
EXTENDS Integers, Sequences, FiniteSets, TLC

VARIABLES
    plugin_ecosystems,         \* what plugin_manager.ecosystems contributes
    ecosystem_objs,            \* the cached_property _plugin_ecosystems:
                               \* [cached, dict], dict empty until cached
    custom_networks,           \* config "networks" -> "custom"
    config_default_ecosystem,  \* config_manager.default_ecosystem
    default_ecosystem_name_,   \* NetworkManager._default_ecosystem_name
    net_call                   \* the last NetworkManager call and its outcome

VARIABLES
    installed,                 \* the plugin modules installed in the environment
    plugin_modules_,           \* the cached_property _plugin_modules: [cached, value]
    registered_,               \* PluginManager.__registered
    pluggy_plugins,            \* the modules registered with pluggy_manager
    unimplemented_plugins_,    \* PluginManager._unimplemented_plugins
    warnings,                  \* what was logged with logger.warning / warn_from_exception
    import_calls,              \* per discovered module, the runs of its import step
    discover_calls,            \* the runs of the discovery behind _plugin_modules
    validated,                 \* the contributions passed to _validate_plugin, in order
    queries,                   \* per hook name, the queries that completed
    calls,                     \* the calls made on the PluginManager so far
    plugin_call                \* the last PluginManager call and its outcome

net_vars == <<plugin_ecosystems, ecosystem_objs, custom_networks,
              config_default_ecosystem, default_ecosystem_name_, net_call>>

plugin_vars == <<installed, plugin_modules_, registered_, pluggy_plugins,
                 unimplemented_plugins_, warnings, import_calls, discover_calls,
                 validated, queries, calls, plugin_call>>

VARIABLES
    threads                    \* per thread, its position in _register_plugins

thread_vars == <<threads>>

VARIABLES
    active,                    \* the active provider: its ecosystem, network, head, uri
    fork_call                  \* the last call of fork and its outcome

fork_vars == <<active, fork_call>>

vars == <<net_vars, plugin_vars, thread_vars, fork_vars>>

----------------------------------------------------------------------------
(* Bounds of the model.                                                    *)

\* the most providers a network declares
MaxProvs == 2

\* the most values one hook implementation contributes
MaxItems == 2

\* the most calls made on one PluginManager
MaxCalls == 3

\* the threads that access the PluginManager concurrently
NumThreads == 2

\* the highest head block number of the active network
MaxHead == 2

----------------------------------------------------------------------------
(* Python values and string operations.                                    *)

None == <<"None">>

Colon == <<":">>

Truthy(v) == v # None /\ v # <<>>

\* Python's `a or b`
Or(a, b) == IF Truthy(a) THEN a ELSE b

startswith(s, prefix) ==
    /\ Len(s) >= Len(prefix)
    /\ SubSeq(s, 1, Len(prefix)) = prefix

endswith(s, suffix) ==
    /\ Len(s) >= Len(suffix)
    /\ SubSeq(s, Len(s) - Len(suffix) + 1, Len(s)) = suffix

HasChar(s, c) == \E i \in 1..Len(s) : s[i] = c

RECURSIVE SplitAcc(_, _, _, _)
SplitAcc(s, c, i, cur) ==
    IF i > Len(s) THEN <<cur>>
    ELSE IF s[i] = c THEN <<cur>> \o SplitAcc(s, c, i + 1, <<>>)
    ELSE SplitAcc(s, c, i + 1, Append(cur, s[i]))

\* str.split(c) for a one-character separator
split(s, c) == SplitAcc(s, c, 1, <<>>)

RECURSIVE join(_, _)
join(sep, parts) ==
    IF parts = <<>> THEN <<>>
    ELSE IF Len(parts) = 1 THEN parts[1]
    ELSE parts[1] \o sep \o join(sep, Tail(parts))

RECURSIVE replace(_, _, _)
\* str.replace(old, new) for a non-empty old
replace(s, old, new) ==
    IF Len(s) < Len(old) THEN s
    ELSE IF startswith(s, old)
         THEN new \o replace(SubSeq(s, Len(old) + 1, Len(s)), old, new)
    ELSE <<s[1]>> \o replace(Tail(s), old, new)

Range(f) == {f[i] : i \in DOMAIN f}

----------------------------------------------------------------------------
(* The states of the two managers when a specification does not use them.  *)

HookNames == {"ecosystems", "providers"}

NotConnected ==
    /\ active = [connected |-> FALSE]
    /\ fork_call = [op |-> "idle"]

NoThreads == [t \in 1..NumThreads |-> [pc |-> "start", i |-> 0]]

PluginManagerUnused ==
    /\ threads = NoThreads
    /\ installed = <<>>
    /\ plugin_modules_ = [cached |-> FALSE, value |-> <<>>]
    /\ registered_ = FALSE
    /\ pluggy_plugins = <<>>
    /\ unimplemented_plugins_ = <<>>
    /\ warnings = <<>>
    /\ import_calls = [i \in DOMAIN installed |-> 0]
    /\ discover_calls = 0
    /\ validated = <<>>
    /\ queries = [h \in HookNames |-> 0]
    /\ calls = 0
    /\ plugin_call = [op |-> "idle"]

NetworkManagerUnused ==
    /\ plugin_ecosystems = <<>>
    /\ ecosystem_objs = [cached |-> FALSE, dict |-> <<>>]
    /\ custom_networks = <<>>
    /\ config_default_ecosystem = None
    /\ default_ecosystem_name_ = None
    /\ net_call = [op |-> "idle", arg |-> None, result |-> None]

----------------------------------------------------------------------------
(* Names.                                                                  *)

Ethereum == <<"e", "t", "h", "e", "r", "e", "u", "m">>

Fantom == <<"f", "t", "m">>

Local == <<"l", "o", "c", "a", "l">>

Mainnet == <<"m", "a", "i", "n">>

Geth == <<"g", "e", "t", "h">>

Test == <<"t", "e", "s", "t">>

Hardhat == <<"h", "h">>

Custom == <<"c", "u", "s", "t", "o", "m">>

Http == <<"h", "t", "t", "p", ":", "/", "/">>

Https == <<"h", "t", "t", "p", "s", ":", "/", "/">>

Ws == <<"w", "s", ":", "/", "/">>

Wss == <<"w", "s", "s", ":", "/", "/">>

Ipc == <<".", "i", "p", "c">>


----------------------------------------------------------------------------
(* The hierarchy.  A dict is a sequence of records in insertion order,     *)
(* keyed by the field `name`.  An ecosystem holds its networks in          *)
(* declaration order and the name of its default network; a network holds  *)
(* its provider names in declaration order and its default provider.       *)

Keys(d) == {d[i].name : i \in DOMAIN d}

HasKey(d, k) == \E i \in DOMAIN d : d[i].name = k

Get(d, k) == d[CHOOSE i \in DOMAIN d : d[i].name = k]

\* d[k] = v: a new key goes last, an existing key keeps its place
DictSet(d, v) ==
    IF HasKey(d, v.name)
    THEN [i \in DOMAIN d |-> IF d[i].name = v.name THEN v ELSE d[i]]
    ELSE Append(d, v)

\* the prefixes of pool of the lengths lo..hi
Prefixes(pool, lo, hi) ==
    {SubSeq(pool, 1, k) : k \in {j \in lo..hi : j <= Len(pool)}}

ProviderPool == <<Geth, Test, Hardhat>>

NetworkPool == <<Local, Mainnet>>

ProviderLists == Prefixes(ProviderPool, 0, MaxProvs)

\* the networks a plugin may declare under `name`: the default provider is one
\* of its providers, and None when it has none
NetworkAPI(name) ==
    UNION {
        {[name |-> name, providers |-> ps, default_provider_name |-> d] :
            d \in IF ps = <<>> THEN {None} ELSE Range(ps)} :
        ps \in ProviderLists}

AllNetworks == UNION {NetworkAPI(n) : n \in Range(NetworkPool)}

\* the ecosystem classes a plugin may contribute under `name`, with at most
\* maxNets networks
EcosystemAPI(name, maxNets) ==
    UNION {
        {[name |-> name, networks |-> nets, default_network_name |-> d,
          cls |-> name] :
            nets \in {f \in [1..Len(names) -> AllNetworks] :
                         \A i \in 1..Len(names) : f[i].name = names[i]},
            d \in Range(names)} :
        names \in Prefixes(NetworkPool, 1, maxNets)}

\* what plugin_manager.ecosystems yields: ethereum (core) and/or one
\* third-party ecosystem with a single network, or two contributions under
\* the third-party name
PluginEcosystems ==
    {<<e>> : e \in EcosystemAPI(Ethereum, Len(NetworkPool))}
        \cup {<<f>> : f \in EcosystemAPI(Fantom, 1)}
        \cup {<<e, f>> : e \in EcosystemAPI(Ethereum, Len(NetworkPool)),
                         f \in EcosystemAPI(Fantom, 1)}
        \cup {<<f, g>> : f \in EcosystemAPI(Fantom, 1), g \in EcosystemAPI(Fantom, 1)}

Cst == <<"c", "s", "t">>

CustomNetworkConfigs ==
    {<<>>,
     <<[ecosystem |-> Cst, base_ecosystem_plugin |-> None]>>,
     <<[ecosystem |-> Fantom, base_ecosystem_plugin |-> Ethereum]>>,
     <<[ecosystem |-> Cst, base_ecosystem_plugin |-> None],
       [ecosystem |-> Cst, base_ecosystem_plugin |-> Fantom]>>}

----------------------------------------------------------------------------
(* NetworkManager: the hierarchy and the default ecosystem.                *)

\* a plausible slip: the configured default comes before the explicit one
Mutant_default_ecosystem_name(explicit, configured) ==
    IF Truthy(configured) THEN configured ELSE Or(explicit, Ethereum)

\* NetworkManager.default_ecosystem_name
default_ecosystem_name(explicit, configured) ==
    IF Truthy(explicit) THEN explicit ELSE Or(configured, Ethereum)

\* NetworkManager._plugin_ecosystems: the dict comprehension over the plugin
\* contributions, computed on the first read and cached
_plugin_ecosystems(cached, plugins) ==
    LET F[i \in 0..Len(plugins)] ==
            IF i = 0 THEN <<>> ELSE DictSet(F[i - 1], plugins[i])
    IN  IF cached.cached THEN cached.dict ELSE F[Len(plugins)]

\* existing_cls.model_copy(update={"name": ecosystem_name}, ...)
model_copy(existing_cls, ecosystem_name) ==
    [existing_cls EXCEPT !.name = ecosystem_name]

RECURSIVE Mutant_AddCustom(_, _, _)
\* a plausible slip: a custom network replaces the ecosystem of its name
Mutant_AddCustom(objs, customs, defname) ==
    IF customs = <<>> THEN [status |-> "ok", objs |-> objs]
    ELSE LET cn == Head(customs)
             base == Or(cn.base_ecosystem_plugin, defname)
         IN  IF ~HasKey(objs, base)
             THEN [status |-> "KeyError", objs |-> objs]
             ELSE Mutant_AddCustom(DictSet(objs, model_copy(Get(objs, base), cn.ecosystem)),
                                   Tail(customs), defname)

RECURSIVE AddCustom(_, _, _)
\* the loop of NetworkManager.ecosystems over the custom networks
AddCustom(objs, customs, defname) ==
    IF customs = <<>> THEN [status |-> "ok", objs |-> objs]
    ELSE LET cn == Head(customs)
             base == Or(cn.base_ecosystem_plugin, defname)
         IN  IF HasKey(objs, cn.ecosystem)
             THEN AddCustom(objs, Tail(customs), defname)
             ELSE IF ~HasKey(objs, base)
             THEN [status |-> "KeyError", objs |-> objs]
             ELSE AddCustom(Append(objs, model_copy(Get(objs, base), cn.ecosystem)),
                            Tail(customs), defname)

\* a plausible slip: every read starts from a fresh dict of the plugin
\* contributions instead of the cached one
Mutant_ecosystems(cached, plugins, customs, defname) ==
    AddCustom(_plugin_ecosystems([cached |-> FALSE, dict |-> <<>>], plugins),
              customs, defname)

\* NetworkManager.ecosystems: the cached dict, with the custom ecosystems
\* inserted into it
ecosystems(cached, plugins, customs, defname) ==
    AddCustom(_plugin_ecosystems(cached, plugins), customs, defname)

\* NetworkManager.ecosystem_names
ecosystem_names(objs) == Keys(objs)

\* NetworkManager.network_names
network_names(objs) ==
    UNION {Keys(objs[i].networks) : i \in DOMAIN objs}

\* NetworkManager.provider_names
provider_names(objs) ==
    UNION {UNION {Range(objs[i].networks[j].providers) :
                     j \in DOMAIN objs[i].networks} : i \in DOMAIN objs}


\* _validate_filter: TRUE when no filter value is unknown.  A filter is the
\* set of its values; no filter (None, or an empty list) is the empty set.
_validate_filter(arg, options) == arg \subseteq options

\* the items of a dict that pass a filter
FilterItems(items, filter) ==
    SelectSeq(items, LAMBDA x : filter = {} \/ x.name \in filter)

\* [n for n in providers if n in provider_filter]
FilterNames(names, filter) ==
    SelectSeq(names, LAMBDA n : filter = {} \/ n \in filter)

\* the concatenation of f[1], ..., f[n]
Flatten(f) ==
    LET F[i \in 0..Len(f)] == IF i = 0 THEN <<>> ELSE F[i - 1] \o f[i]
    IN  F[Len(f)]

----------------------------------------------------------------------------
(* NetworkManager.get_network_choices.  Each yielded selector is kept with *)
(* the ecosystem, network and provider of the loop iteration that yielded  *)
(* it (None for the levels the selector does not name).                    *)

Choice(sel, e, n, p) ==
    [sel |-> sel, ecosystem |-> e, network |-> n, provider |-> p]

\* the body of `for provider_name in providers`
ProviderChoices(ecosystem_name, network_name, provider_name, default_name, default_network_name) ==
    (IF ecosystem_name = default_name /\ network_name = default_network_name
     THEN <<Choice(Colon \o Colon \o provider_name,
                   ecosystem_name, network_name, provider_name)>>
     ELSE <<>>)
    \o (IF ecosystem_name = default_name
        THEN <<Choice(Colon \o network_name \o Colon \o provider_name,
                      ecosystem_name, network_name, provider_name)>>
        ELSE <<>>)
    \o (IF network_name = default_network_name
        THEN <<Choice(ecosystem_name \o Colon \o Colon \o provider_name,
                      ecosystem_name, network_name, provider_name)>>
        ELSE <<>>)
    \o <<Choice(ecosystem_name \o Colon \o network_name \o Colon \o provider_name,
                ecosystem_name, network_name, provider_name)>>

\* the network-level shorthands yielded after a network's providers
NetworkShorthands(ecosystem_name, network_name, default_name) ==
    (IF ecosystem_name = default_name
     THEN <<Choice(Colon \o network_name, ecosystem_name, network_name, None)>>
     ELSE <<>>)
    \o <<Choice(ecosystem_name \o Colon \o network_name,
                ecosystem_name, network_name, None)>>

\* a plausible slip: the network-level shorthands come before the providers
Mutant_NetworkChoices(ecosystem, network, provider_filter, default_name) ==
    LET providers == FilterNames(network.providers, provider_filter)
    IN  IF Len(providers) = 0 THEN <<>>
        ELSE NetworkShorthands(ecosystem.name, network.name, default_name)
             \o Flatten([i \in 1..Len(providers) |->
                            ProviderChoices(ecosystem.name, network.name, providers[i],
                                            default_name,
                                            ecosystem.default_network_name)])

\* the body of `for network_name, network in network_items.items()`
NetworkChoices(ecosystem, network, provider_filter, default_name) ==
    LET providers == FilterNames(network.providers, provider_filter)
    IN  IF Len(providers) = 0 THEN <<>>
        ELSE Flatten([i \in 1..Len(providers) |->
                         ProviderChoices(ecosystem.name, network.name, providers[i],
                                         default_name,
                                         ecosystem.default_network_name)])
             \o NetworkShorthands(ecosystem.name, network.name, default_name)

\* ecosystem_has_providers after the loop over the networks
ecosystem_has_providers(network_items, provider_filter) ==
    \E j \in DOMAIN network_items :
        Len(FilterNames(network_items[j].providers, provider_filter)) > 0

\* the body of `for ecosystem_name, ecosystem in ecosystem_items.items()`
EcosystemChoices(ecosystem, network_filter, provider_filter, default_name) ==
    LET network_items == FilterItems(ecosystem.networks, network_filter)
    IN  Flatten([j \in 1..Len(network_items) |->
                    NetworkChoices(ecosystem, network_items[j], provider_filter,
                                   default_name)])
        \o (IF ecosystem_has_providers(network_items, provider_filter)
            THEN <<Choice(ecosystem.name, ecosystem.name, None, None)>>
            ELSE <<>>)

\* get_network_choices, iterated to its end.  self.default_ecosystem is read
\* when the first provider is reached, and raises KeyError when the default
\* ecosystem name is no key of the hierarchy.
get_network_choices(objs, default_name, ecosystem_filter, network_filter, provider_filter) ==
    LET ecosystem_items == FilterItems(objs, ecosystem_filter)
        reaches_provider ==
            \E i \in DOMAIN ecosystem_items :
                ecosystem_has_providers(
                    FilterItems(ecosystem_items[i].networks, network_filter),
                    provider_filter)
    IN  IF \/ ~_validate_filter(ecosystem_filter, ecosystem_names(objs))
           \/ ~_validate_filter(network_filter, network_names(objs))
           \/ ~_validate_filter(provider_filter, provider_names(objs))
        THEN [status |-> "NetworkError", out |-> <<>>]
        ELSE IF reaches_provider /\ ~HasKey(objs, default_name)
        THEN [status |-> "KeyError", out |-> <<>>]
        ELSE [status |-> "ok",
              out |-> Flatten([i \in 1..Len(ecosystem_items) |->
                                  EcosystemChoices(ecosystem_items[i], network_filter,
                                                   provider_filter, default_name)])]


----------------------------------------------------------------------------
(* NetworkManager.get_provider_from_choice.  The outcome is a provider     *)
(* handle (status "ok") or the exception raised.  `lookups` lists, in      *)
(* order, the reads of the hierarchy the call made.                        *)

Lookup(via, key) == [via |-> via, key |-> key]

ProviderAPI(ecosystem_name, network_name, provider_name, provider_settings, lookups) ==
    [status |-> "ok", ecosystem |-> ecosystem_name, network |-> network_name,
     provider |-> provider_name, provider_settings |-> provider_settings,
     value |-> None, lookups |-> lookups]

Raise(exception, value, lookups) ==
    [status |-> exception, ecosystem |-> None, network |-> None,
     provider |-> None, provider_settings |-> {}, value |-> value,
     lookups |-> lookups]

\* a plausible slip: the https:// prefix is not recognised
Mutant_is_custom_network(value) ==
    \/ startswith(value, Http)
    \/ startswith(value, Ws)
    \/ startswith(value, Wss)
    \/ (endswith(value, Ipc) /\ ~HasChar(value, ":"))

\* _is_custom_network
_is_custom_network(value) ==
    \/ startswith(value, Http)
    \/ startswith(value, Https)
    \/ startswith(value, Ws)
    \/ startswith(value, Wss)
    \/ (endswith(value, Ipc) /\ ~HasChar(value, ":"))

\* NetworkAPI.get_provider: the named provider of the network, its default
\* provider when none is named
get_provider(ecosystem, network, provider_name, lookups) ==
    LET name == Or(provider_name, network.default_provider_name)
    IN  IF ~Truthy(name)
        THEN Raise("NetworkError", network.name, lookups)
        ELSE IF name \notin Range(network.providers)
        THEN Raise("NetworkError", name, lookups)
        ELSE ProviderAPI(ecosystem.name, network.name, name, {}, lookups)

\* EcosystemAPI.get_network(network_name).get_provider(provider_name)
get_network(ecosystem, network_name, provider_name, lookups) ==
    IF ~HasKey(ecosystem.networks, network_name)
    THEN Raise("NetworkNotFoundError", network_name, lookups)
    ELSE get_provider(ecosystem, Get(ecosystem.networks, network_name),
                      provider_name, lookups)

\* NetworkManager.__getattr__: the keys of the hierarchy among attr_name and
\* its hyphen/underscore spellings; the ecosystem under one of them is
\* returned, and ApeAttributeError is raised when there is none
getattr_options(objs, attr_name) ==
    {opt \in {attr_name, replace(attr_name, <<"-">>, <<"_">>),
              replace(attr_name, <<"_">>, <<"-">>)} : HasKey(objs, opt)}

\* NetworkManager.create_custom_provider with the default provider_cls
create_custom_provider(objs, connection_str) ==
    LET lookups == <<Lookup("__getattr__", Ethereum)>>
        found == getattr_options(objs, Ethereum)
        ethereum == Get(objs, CHOOSE opt \in found : TRUE)
    IN  IF found = {}
        THEN Raise("ApeAttributeError", Ethereum, lookups)
        ELSE IF startswith(connection_str, Https) \/ startswith(connection_str, Http)
        THEN ProviderAPI(ethereum.name, Custom, Geth,
                         {<<"uri", connection_str>>}, lookups)
        ELSE IF endswith(connection_str, Ipc)
        THEN ProviderAPI(ethereum.name, Custom, Geth,
                         {<<"ipc_path", connection_str>>}, lookups)
        ELSE Raise("NetworkError", connection_str, lookups)

\* a plausible slip: the segments after the third are dropped
Mutant_Selections(network_choice) ==
    LET selections == split(network_choice, ":")
    IN  IF Len(selections) > 3
        THEN <<selections[1],
               IF _is_custom_network(selections[3])
               THEN Or(selections[2], Custom) ELSE selections[2],
               selections[3]>>
        ELSE selections

\* network_choice.split(":"), with the segments after the second joined
\* again when there are more than three
Selections(network_choice) ==
    LET selections == split(network_choice, ":")
    IN  IF Len(selections) > 3
        THEN LET provider_value == join(Colon, SubSeq(selections, 3, Len(selections)))
             IN  <<selections[1],
                   IF _is_custom_network(provider_value)
                   THEN Or(selections[2], Custom) ELSE selections[2],
                   provider_value>>
        ELSE selections

\* a plausible slip: an empty ecosystem segment means "ethereum"
Mutant_ResolveByName(objs, default_name, segment, network_name, provider_name) ==
    LET ecosystem_name == Or(segment, Ethereum)
        lookups == <<Lookup("get_ecosystem", ecosystem_name)>>
    IN  IF ecosystem_name \notin ecosystem_names(objs)
        THEN Raise("EcosystemNotFoundError", ecosystem_name, lookups)
        ELSE LET ecosystem == Get(objs, ecosystem_name)
             IN  get_network(ecosystem,
                             Or(network_name, ecosystem.default_network_name),
                             provider_name, lookups)

\* self.get_ecosystem(segment or self.default_ecosystem.name), continued by
\* get_network(network_name or default).get_provider(provider_name)
ResolveByName(objs, default_name, segment, network_name, provider_name) ==
    LET use_default == ~Truthy(segment)
        ecosystem_name == IF use_default THEN default_name ELSE segment
        lookups == (IF use_default
                    THEN <<Lookup("default_ecosystem", default_name)>> ELSE <<>>)
                   \o <<Lookup("get_ecosystem", ecosystem_name)>>
    IN  IF use_default /\ ~HasKey(objs, default_name)
        THEN Raise("KeyError", default_name,
                   <<Lookup("default_ecosystem", default_name)>>)
        ELSE IF ecosystem_name \notin ecosystem_names(objs)
        THEN Raise("EcosystemNotFoundError", ecosystem_name, lookups)
        ELSE LET ecosystem == Get(objs, ecosystem_name)
             IN  get_network(ecosystem,
                             Or(network_name, ecosystem.default_network_name),
                             provider_name, lookups)

\* a plausible slip: an empty ecosystem segment takes the first ecosystem of
\* the hierarchy and its first network
Mutant_ResolveFull(objs, default_name, ecosystem_name, network_name, provider_name) ==
    IF Truthy(ecosystem_name)
    THEN ResolveByName(objs, default_name, ecosystem_name, network_name,
                       provider_name)
    ELSE LET lookups == <<Lookup("default_ecosystem", default_name)>>
         IN  IF ~HasKey(objs, default_name)
             THEN Raise("KeyError", default_name, lookups)
             ELSE LET ecosystem == objs[1]
                  IN  get_network(ecosystem,
                                  Or(network_name, ecosystem.networks[1].name),
                                  provider_name, lookups)

\* the three-segment branch: self.get_ecosystem(ecosystem_name) if
\* ecosystem_name else self.default_ecosystem
ResolveFull(objs, default_name, ecosystem_name, network_name, provider_name) ==
    IF Truthy(ecosystem_name)
    THEN ResolveByName(objs, default_name, ecosystem_name, network_name,
                       provider_name)
    ELSE LET lookups == <<Lookup("default_ecosystem", default_name)>>
         IN  IF ~HasKey(objs, default_name)
             THEN Raise("KeyError", default_name, lookups)
             ELSE LET ecosystem == Get(objs, default_name)
                  IN  get_network(ecosystem,
                                  Or(network_name, ecosystem.default_network_name),
                                  provider_name, lookups)

get_provider_from_choice(objs, default_name, network_choice) ==
    IF network_choice = None
    THEN ResolveFull(objs, default_name, <<>>, <<>>, None)
    ELSE IF _is_custom_network(network_choice)
    THEN create_custom_provider(objs, network_choice)
    ELSE LET selections == Selections(network_choice)
         IN  IF Len(selections) = 1
             THEN ResolveByName(objs, default_name, selections[1], <<>>, None)
             ELSE IF Len(selections) = 2
             THEN ResolveByName(objs, default_name, selections[1],
                                selections[2], None)
             ELSE ResolveFull(objs, default_name, selections[1], selections[2],
                              selections[3])


----------------------------------------------------------------------------
(* The calls made on the NetworkManager.  Every call reads self.ecosystems *)
(* first, which fills the cached dict and inserts the custom ecosystems.   *)

HttpsUri == Https \o <<"r">>

IpcPath == <<"n">> \o Ipc

WsUri == Ws \o <<"r">>

EcosystemFilters == {{}, {Fantom}}

NetworkFilters == {{}, {Mainnet}}

ProviderFilters == {{}, {Geth}, {Test}}

EcosystemSegments == {<<>>, Ethereum, Fantom}

NetworkSegments == {<<>>, Local, Mainnet}

ProviderSegments == {Geth, Test}

\* selectors that split into more than three segments
LongSelectors ==
    {Ethereum \o Colon \o Colon \o HttpsUri,
     Colon \o Colon \o WsUri,
     Ethereum \o Colon \o Local \o Colon \o HttpsUri,
     Ethereum \o Colon \o Colon \o Geth \o Colon \o IpcPath,
     Fantom \o Colon \o Mainnet \o Colon \o Geth \o Colon \o Test,
     HttpsUri \o Colon \o Geth \o Colon \o Test}

NetworkChoiceInputs ==
    {None, HttpsUri, IpcPath, WsUri}
        \cup LongSelectors
        \cup EcosystemSegments
        \cup {e \o Colon \o n : e \in EcosystemSegments, n \in NetworkSegments}
        \cup {e \o Colon \o n \o Colon \o p :
                 e \in EcosystemSegments, n \in NetworkSegments,
                 p \in ProviderSegments}

CurrentDefaultName ==
    default_ecosystem_name(default_ecosystem_name_, config_default_ecosystem)

CurrentEcosystems ==
    ecosystems(ecosystem_objs, plugin_ecosystems, custom_networks,
               CurrentDefaultName)

\* no call is in progress
Idle == [op |-> "idle", arg |-> None, result |-> None]

NetInit ==
    /\ PluginManagerUnused
    /\ NotConnected
    /\ plugin_ecosystems \in PluginEcosystems
    /\ ecosystem_objs = [cached |-> FALSE, dict |-> <<>>]
    /\ custom_networks \in CustomNetworkConfigs
    /\ config_default_ecosystem \in {None, Fantom}
    /\ default_ecosystem_name_ = None
    /\ net_call = Idle

GetNetworkChoices(ecosystem_filter, network_filter, provider_filter) ==
    LET read == CurrentEcosystems
    IN  /\ net_call.op = "idle"
        /\ ecosystem_objs' = [cached |-> TRUE, dict |-> read.objs]
        /\ net_call' =
              [op |-> "get_network_choices",
               arg |-> [ecosystem_filter |-> ecosystem_filter,
                        network_filter |-> network_filter,
                        provider_filter |-> provider_filter],
               result |-> IF read.status # "ok"
                          THEN [status |-> read.status, out |-> <<>>]
                          ELSE get_network_choices(read.objs, CurrentDefaultName,
                                                   ecosystem_filter, network_filter,
                                                   provider_filter)]
        /\ UNCHANGED <<plugin_ecosystems, custom_networks,
                       config_default_ecosystem, default_ecosystem_name_,
                   plugin_vars, thread_vars, fork_vars>>

\* get_provider_from_choice on a read of self.ecosystems: when the read
\* raises, the call raises at its first read of the hierarchy
get_provider_from_choice_read(read, default_name, network_choice) ==
    LET result == get_provider_from_choice(read.objs, default_name, network_choice)
    IN  IF read.status = "ok" THEN result
        ELSE Raise(read.status, None, SubSeq(result.lookups, 1, 1))

GetProviderFromChoice(network_choice) ==
    LET read == CurrentEcosystems
    IN  /\ net_call.op = "idle"
        /\ ecosystem_objs' = [cached |-> TRUE, dict |-> read.objs]
        /\ net_call' =
              [op |-> "get_provider_from_choice",
               arg |-> network_choice,
               result |-> get_provider_from_choice_read(read, CurrentDefaultName,
                                                        network_choice)]
        /\ UNCHANGED <<plugin_ecosystems, custom_networks,
                       config_default_ecosystem, default_ecosystem_name_,
                   plugin_vars, thread_vars, fork_vars>>

\* NetworkManager.set_default_ecosystem
SetDefaultEcosystem(ecosystem_name) ==
    LET read == CurrentEcosystems
        found == read.status = "ok" /\ ecosystem_name \in ecosystem_names(read.objs)
    IN  /\ net_call.op = "idle"
        /\ ecosystem_objs' = [cached |-> TRUE, dict |-> read.objs]
        /\ default_ecosystem_name_' =
              IF found THEN ecosystem_name ELSE default_ecosystem_name_
        /\ net_call' =
              [op |-> "set_default_ecosystem",
               arg |-> ecosystem_name,
               result |-> IF found THEN "ok"
                          ELSE IF read.status # "ok" THEN read.status
                          ELSE "EcosystemNotFoundError"]
        /\ UNCHANGED <<plugin_ecosystems, custom_networks,
                       config_default_ecosystem,
                   plugin_vars, thread_vars, fork_vars>>

\* the caller takes the outcome of its call
Return ==
    /\ net_call.op # "idle"
    /\ net_call' = Idle
    /\ UNCHANGED <<plugin_ecosystems, ecosystem_objs, custom_networks,
                   config_default_ecosystem, default_ecosystem_name_,
                   plugin_vars, thread_vars, fork_vars>>

NetNext ==
    \/ \E ef \in EcosystemFilters, nf \in NetworkFilters, pf \in ProviderFilters :
          GetNetworkChoices(ef, nf, pf)
    \/ \E network_choice \in NetworkChoiceInputs :
          GetProviderFromChoice(network_choice)
    \/ \E ecosystem_name \in {Ethereum, Fantom, Cst} :
          SetDefaultEcosystem(ecosystem_name)
    \/ Return

Spec == NetInit /\ [][NetNext]_vars

----------------------------------------------------------------------------
(* Reads of NetworkManager.ecosystems while the configuration changes: the  *)
(* list of custom networks is fetched from the config manager by every read.*)

\* the lists of custom networks the configuration may come to declare
ConfigChanges ==
    CustomNetworkConfigs
        \cup {<<[ecosystem |-> Cst, base_ecosystem_plugin |-> Fantom]>>}

\* a read of self.ecosystems by a caller
ReadEcosystems ==
    LET read == CurrentEcosystems
    IN  /\ net_call.op = "idle"
        /\ ecosystem_objs' = [cached |-> TRUE, dict |-> read.objs]
        /\ net_call' =
              [op |-> "ecosystems",
               arg |-> None,
               result |-> [status |-> read.status,
                           objs |-> IF read.status = "ok" THEN read.objs ELSE <<>>]]
        /\ UNCHANGED <<plugin_ecosystems, custom_networks,
                       config_default_ecosystem, default_ecosystem_name_,
                       plugin_vars, thread_vars, fork_vars>>

\* the configuration comes to declare another list of custom networks
SetCustomNetworks(customs) ==
    /\ net_call.op = "idle"
    /\ customs # custom_networks
    /\ custom_networks' = customs
    /\ UNCHANGED <<plugin_ecosystems, ecosystem_objs, config_default_ecosystem,
                   default_ecosystem_name_, net_call,
                   plugin_vars, thread_vars, fork_vars>>

ConfigNext ==
    \/ ReadEcosystems
    \/ \E customs \in ConfigChanges : SetCustomNetworks(customs)
    \/ \E ecosystem_name \in {Ethereum, Fantom, Cst} :
          SetDefaultEcosystem(ecosystem_name)
    \/ Return

SpecConfig == NetInit /\ [][ConfigNext]_vars


----------------------------------------------------------------------------
(* NetworkManager.fork.  A settings dict is a function from keys to nodes; *)
(* a node is a leaf value or a nested dict.  An optional int or dict is a  *)
(* record that tells whether it is None.                                   *)

ForkKey == <<"f", "o", "r", "k">>

BlockNumberKey == <<"b", "l", "o", "c", "k", "_", "n", "u", "m", "b", "e", "r">>

UpstreamProviderKey == <<"u", "p", "s", "t", "r", "e", "a", "m">>

ChainIdKey == <<"c", "h", "a", "i", "n", "_", "i", "d">>

ForkSuffix == <<"-", "f", "o", "r", "k">>

Leaf(v) == [leaf |-> v]

Dict(d) == [dict |-> d]

IsDict(node) == "dict" \in DOMAIN node

EmptyDict == <<>>

Entry(k, node) == [x \in {k} |-> node]

Some(v) == [is_none |-> FALSE, value |-> v]

Nothing == [is_none |-> TRUE, value |-> 0]

\* _dict_overlay(mapping, overlay): the overlay fills the mapping in place,
\* level by level; a value the mapping holds already is kept
RECURSIVE _dict_overlay(_, _)
_dict_overlay(mapping, overlay) ==
    [k \in DOMAIN mapping \cup DOMAIN overlay |->
        IF k \notin DOMAIN overlay THEN mapping[k]
        ELSE IF k \notin DOMAIN mapping THEN overlay[k]
        ELSE IF IsDict(mapping[k]) /\ IsDict(overlay[k])
             THEN Dict(_dict_overlay(mapping[k].dict, overlay[k].dict))
             ELSE mapping[k]]

\* a plausible slip: the head-relative block number is subtracted
Mutant_fork_block_number(latest, block_number) ==
    IF block_number.is_none THEN [raised |-> FALSE, fork_settings |-> EmptyDict]
    ELSE IF block_number.value < 0
    THEN LET latest_block_number == IF latest.is_none THEN 0 ELSE latest.value
             relative == latest_block_number - block_number.value
         IN  IF relative < 0 THEN [raised |-> TRUE, fork_settings |-> EmptyDict]
             ELSE [raised |-> FALSE,
                   fork_settings |-> Entry(BlockNumberKey, Leaf(relative))]
    ELSE [raised |-> FALSE,
          fork_settings |-> Entry(BlockNumberKey, Leaf(block_number.value))]

\* fork: the block number to fork at, from `latest`, the number of the block
\* self.provider.get_block("latest")
fork_block_number(latest, block_number) ==
    IF block_number.is_none THEN [raised |-> FALSE, fork_settings |-> EmptyDict]
    ELSE IF block_number.value < 0
    THEN LET latest_block_number == IF latest.is_none THEN 0 ELSE latest.value
             relative == latest_block_number + block_number.value
         IN  IF relative < 0 THEN [raised |-> TRUE, fork_settings |-> EmptyDict]
             ELSE [raised |-> FALSE,
                   fork_settings |-> Entry(BlockNumberKey, Leaf(relative))]
    ELSE [raised |-> FALSE,
          fork_settings |-> Entry(BlockNumberKey, Leaf(block_number.value))]

\* fork: the upstream provider is the uri of the active provider, if it has one
fork_upstream_provider(fork_settings, connection_str) ==
    IF Truthy(connection_str)
    THEN Entry(UpstreamProviderKey, Leaf(connection_str)) @@ fork_settings
    ELSE fork_settings

\* a plausible slip: the settings are filed under the forked network's name
Mutant_fork_overlay(ecosystem_name, network_name, fork_settings) ==
    Entry(ForkKey,
          Dict(Entry(ecosystem_name,
                     Dict(Entry(network_name \o ForkSuffix, Dict(fork_settings))))))

\* fork: {"fork": {self.ecosystem.name: {self.network.name: fork_settings}}}
fork_overlay(ecosystem_name, network_name, fork_settings) ==
    Entry(ForkKey,
          Dict(Entry(ecosystem_name, Dict(Entry(network_name, Dict(fork_settings))))))

ForkRaise(message) ==
    [status |-> "NetworkError", message |-> message, provider |-> None,
     fork_settings |-> EmptyDict, provider_settings |-> EmptyDict,
     disconnect_after |-> FALSE]

\* NetworkManager.fork on the active provider
fork(provider, provider_name, provider_settings, block_number) ==
    LET forked_name == provider.network \o ForkSuffix
        settings == IF provider_settings.is_none THEN EmptyDict
                    ELSE provider_settings.value
        number == fork_block_number(provider.latest, block_number)
        fork_settings == fork_upstream_provider(number.fork_settings,
                                                provider.connection_str)
        handle == get_network(provider.ecosystem, forked_name, provider_name, <<>>)
    IN  IF ~HasKey(provider.ecosystem.networks, forked_name)
        THEN ForkRaise("Unable to fork network")
        ELSE IF number.raised
        THEN ForkRaise("Unable to fork past genesis block.")
        ELSE [status |-> handle.status,
              message |-> "",
              provider |-> handle,
              fork_settings |-> fork_settings,
              provider_settings |->
                  _dict_overlay(settings,
                                fork_overlay(provider.ecosystem.name, provider.network,
                                             fork_settings)),
              disconnect_after |-> TRUE]

----------------------------------------------------------------------------
(* The calls of fork on a connected NetworkManager.                        *)

Uri == Http \o <<"u">>

CallerUri == Http \o <<"c">>

Net(name, providers) ==
    [name |-> name, providers |-> providers, default_provider_name |-> providers[1]]

\* ethereum with the network main, and with or without main-fork
ForkEcosystems ==
    { [name |-> Ethereum, networks |-> networks,
       default_network_name |-> Mainnet, cls |-> Ethereum] :
        networks \in { <<Net(Mainnet, <<Geth>>)>>,
                       <<Net(Mainnet, <<Geth>>),
                         Net(Mainnet \o ForkSuffix, <<Hardhat, Test>>)>> } }

ActiveProviders ==
    { [connected |-> TRUE, ecosystem |-> e, network |-> Mainnet, latest |-> h,
       connection_str |-> c] :
        e \in ForkEcosystems,
        h \in {Nothing} \cup {Some(n) : n \in 0..MaxHead},
        c \in {<<>>, Uri} }

\* what the caller sets under fork -> ethereum -> <network>
NetworkSettings(network_name, d) ==
    Some(Entry(ForkKey, Dict(Entry(Ethereum, Dict(Entry(network_name, Dict(d)))))))

CallerBlock == Entry(BlockNumberKey, Leaf(MaxHead + 1))

CallerUpstream == Entry(UpstreamProviderKey, Leaf(CallerUri))

\* the provider_settings the caller passes, one per index
ProviderSettings ==
    << Nothing,
       Some(EmptyDict),
       Some(Entry(ChainIdKey, Leaf(1))),
       NetworkSettings(Mainnet, CallerBlock),
       NetworkSettings(Mainnet, CallerUpstream),
       NetworkSettings(Mainnet, CallerBlock @@ CallerUpstream),
       NetworkSettings(Local, CallerBlock),
       Some(Entry(ChainIdKey, Leaf(1)) @@ NetworkSettings(Mainnet, CallerBlock).value) >>

BlockNumbers == {Nothing} \cup {Some(b) : b \in (0 - MaxHead - 1)..MaxHead}

ForkInit ==
    /\ NetworkManagerUnused
    /\ PluginManagerUnused
    /\ active \in ActiveProviders
    /\ fork_call = [op |-> "idle"]

Fork(provider_name, s, block_number) ==
    /\ active.connected
    /\ fork_call' = [op |-> "fork",
                     provider_name |-> provider_name,
                     provider_settings |-> ProviderSettings[s],
                     block_number |-> block_number,
                     result |-> fork(active, provider_name, ProviderSettings[s],
                                     block_number)]
    /\ UNCHANGED <<active, net_vars, plugin_vars, thread_vars>>

ForkNext ==
    \E provider_name \in {None, Hardhat, Geth}, s \in DOMAIN ProviderSettings,
       block_number \in BlockNumbers :
        Fork(provider_name, s, block_number)

SpecFork == ForkInit /\ [][ForkNext]_vars

----------------------------------------------------------------------------
(* Properties of the selector resolution.                                  *)

\* the outcome of get_provider_from_choice in the current state
Resolve(network_choice) ==
    get_provider_from_choice_read(CurrentEcosystems, CurrentDefaultName,
                                  network_choice)

ChoicesYielded ==
    /\ net_call.op = "get_network_choices"
    /\ net_call.result.status = "ok"

\* C1: every selector yielded by get_network_choices (called without
\* filters) resolves through get_provider_from_choice to a handle of the
\* ecosystem, network and provider that yielded it; a network-level or
\* ecosystem-level shorthand is held to the levels it names.
C1_RoundTrip ==
    (/\ ChoicesYielded
     /\ net_call.arg.ecosystem_filter = {}
     /\ net_call.arg.network_filter = {}
     /\ net_call.arg.provider_filter = {})
    => \A i \in DOMAIN net_call.result.out :
          LET choice == net_call.result.out[i]
              handle == Resolve(choice.sel)
          IN  /\ handle.status = "ok"
              /\ handle.ecosystem = choice.ecosystem
              /\ choice.network # None => handle.network = choice.network
              /\ choice.provider # None => handle.provider = choice.provider

\* C2: with provider_filter = {p}, no selector yielded by
\* get_network_choices resolves to a handle of a provider other than p.
C2_FilteredProviderOnly ==
    (ChoicesYielded /\ Cardinality(net_call.arg.provider_filter) = 1)
    => \A i \in DOMAIN net_call.result.out :
          LET handle == Resolve(net_call.result.out[i].sel)
          IN  handle.status = "ok"
              => handle.provider \in net_call.arg.provider_filter

CustomResolved ==
    /\ net_call.op = "get_provider_from_choice"
    /\ net_call.arg = HttpsUri

----------------------------------------------------------------------------
(* The plugin modules.  A module has a name, is a core plugin or not       *)
(* (module_name in __modules__), and implements each hook or not.  A hook  *)
(* implementation returns a single class ("value"), a tuple of classes     *)
(* ("tuple") or a generator of classes ("generator").  A class has a name  *)
(* and, when it is an ABC, the set __abstractmethods__.                    *)

ApeEth == <<"a", "p", "e", "_", "e", "t", "h">>

ApeXY == <<"a", "p", "e", "_", "x", "_", "y">>

ClassNames == <<"A", "B">>

Class(name, abstractmethods) ==
    [name |-> name,
     has_abstractmethods |-> TRUE,
     abstractmethods |-> abstractmethods]

PlainClass(name) ==
    [name |-> name, has_abstractmethods |-> FALSE, abstractmethods |-> {}]

\* the classes a hook implementation returns: at most one is invalid
ClassLists(fromLen, allowInvalid) ==
    UNION { { [i \in 1..n |->
                IF i = bad THEN Class(ClassNames[i], {"m"})
                ELSE IF i = 1 THEN Class(ClassNames[i], {})
                ELSE PlainClass(ClassNames[i])] :
              bad \in IF allowInvalid THEN 0..n ELSE {0} } :
            n \in fromLen..MaxItems }

NoImpl == [shape |-> "none", items |-> <<>>]

HookImpls(allowInvalid) ==
    { [shape |-> "value", items |-> <<c>>] :
        c \in {l[1] : l \in {k \in ClassLists(1, allowInvalid) : Len(k) = 1}} }
    \cup { [shape |-> "tuple", items |-> l] : l \in ClassLists(1, allowInvalid) }
    \cup { [shape |-> "generator", items |-> l] : l \in ClassLists(0, allowInvalid) }

\* a module that implements the one hook `hook`
Module(name, core, hook, impl) ==
    [name |-> name, core |-> core,
     hooks |-> [h \in HookNames |-> IF h = hook THEN impl ELSE NoImpl]]

CoreModules == { Module(ApeEth, TRUE, "ecosystems", i) : i \in HookImpls(FALSE) }

ThirdPartyModules ==
    { Module(ApeXY, FALSE, h, i) : h \in HookNames, i \in HookImpls(TRUE) }

\* a second core module, which contributes one valid class
ApePm == Module(<<"a", "p", "e", "_", "p", "m">>, TRUE, "ecosystems",
                [shape |-> "generator", items |-> <<PlainClass("C")>>])

\* what is installed, in the order the tuple of _plugin_modules lists it
InstalledModules ==
    { <<m>> : m \in CoreModules \cup ThirdPartyModules }
    \cup { <<c, ApePm>> : c \in CoreModules }
    \cup { <<ApePm, c>> : c \in CoreModules }
    \cup { <<c, t>> : c \in CoreModules, t \in ThirdPartyModules }
    \cup { <<t, c>> : c \in CoreModules, t \in ThirdPartyModules }

----------------------------------------------------------------------------
(* PluginManager.                                                          *)

clean_plugin_name(name) == replace(replace(name, <<"_">>, <<"-">>), <<"a", "p", "e", "-">>, <<>>)

\* an object a hook contributes: one class, or a tuple of classes
Obj(is_tuple, items) == [is_tuple |-> is_tuple, items |-> items]

valid_class(api_class) ==
    IF ~api_class.has_abstractmethods THEN TRUE
    ELSE Cardinality(api_class.abstractmethods) = 0

valid_impl(api_class) ==
    IF api_class.is_tuple
    THEN \A i \in DOMAIN api_class.items : valid_class(api_class.items[i])
    ELSE valid_class(api_class.items[1])

\* the tuple of module names that _plugin_modules computes and caches
_plugin_modules(cache, modules) ==
    IF cache.cached THEN [cache |-> cache, discovered |-> 0]
    ELSE [cache |-> [cached |-> TRUE, value |-> [i \in DOMAIN modules |-> modules[i].name]],
          discovered |-> 1]

import_module(modules, module_name) ==
    modules[CHOOSE i \in DOMAIN modules : modules[i].name = module_name]

\* pluggy's register raises ValueError for a plugin that is registered already
pluggy_register(plugins, module) ==
    IF \E i \in DOMAIN plugins : plugins[i].name = module.name
    THEN [raised |-> TRUE, plugins |-> plugins]
    ELSE [raised |-> FALSE, plugins |-> Append(plugins, module)]

ErrorLoading(module_name) == [kind |-> "error loading", plugin |-> module_name]

NotFullyImplemented(plugin_name) == [kind |-> "not implemented", plugin |-> plugin_name]

\* a plausible slip: the error of a third-party module is raised as well
Mutant_RegisterModule(st, modules, i, ok) ==
    LET module_name == st.names[i]
        reg == pluggy_register(st.plugins, import_module(modules, module_name))
        st1 == [st EXCEPT !.import_calls[i] = @ + 1]
    IN  IF ok /\ ~reg.raised THEN [st1 EXCEPT !.plugins = reg.plugins]
        ELSE [st1 EXCEPT !.raised = TRUE]

\* one iteration of the loop of _register_plugins: the try block and its
\* except clause.  `ok` tells whether importlib.import_module succeeds.
RegisterModule(st, modules, i, ok) ==
    LET module_name == st.names[i]
        reg == pluggy_register(st.plugins, import_module(modules, module_name))
        st1 == [st EXCEPT !.import_calls[i] = @ + 1]
    IN  IF ok /\ ~reg.raised THEN [st1 EXCEPT !.plugins = reg.plugins]
        ELSE IF import_module(modules, module_name).core
             THEN [st1 EXCEPT !.raised = TRUE]
             ELSE [st1 EXCEPT !.warnings = Append(@, ErrorLoading(module_name))]

RECURSIVE RegisterLoop(_, _, _, _)
RegisterLoop(st, modules, i, ok) ==
    IF st.raised THEN st
    ELSE IF i > Len(st.names) THEN [st EXCEPT !.registered = TRUE]
    ELSE RegisterLoop(RegisterModule(st, modules, i, ok[i]), modules, i + 1, ok)

\* the registry state a call works on
Registry ==
    [registered |-> registered_,
     names |-> plugin_modules_.value,
     plugins |-> pluggy_plugins,
     warnings |-> warnings,
     import_calls |-> import_calls,
     raised |-> FALSE]

\* a plausible slip: the flag is set whether or not the loop completed
Mutant_register_plugins(st, cache, modules, ok) ==
    IF st.registered THEN [st |-> st, modules |-> [cache |-> cache, discovered |-> 0]]
    ELSE LET pm == _plugin_modules(cache, modules)
         IN  [st |-> [RegisterLoop([st EXCEPT !.names = pm.cache.value], modules, 1, ok)
                         EXCEPT !.registered = TRUE],
              modules |-> pm]

_register_plugins(st, cache, modules, ok) ==
    IF st.registered THEN [st |-> st, modules |-> [cache |-> cache, discovered |-> 0]]
    ELSE LET pm == _plugin_modules(cache, modules)
         IN  [st |-> RegisterLoop([st EXCEPT !.names = pm.cache.value], modules, 1, ok),
              modules |-> pm]

\* what a query accumulates: the pairs yielded, and what validation records
Yielded ==
    [out |-> <<>>,
     unimplemented |-> unimplemented_plugins_,
     warnings |-> warnings,
     validated |-> validated]

Mutant_warn_not_fully_implemented_error(q, results, plugin_name) ==
    [q EXCEPT !.warnings = Append(@, NotFullyImplemented(plugin_name)),
              !.unimplemented = Append(@, plugin_name)]

_warn_not_fully_implemented_error(q, results, plugin_name) ==
    IF plugin_name \in Range(q.unimplemented) THEN q
    ELSE [q EXCEPT !.warnings = Append(@, NotFullyImplemented(plugin_name)),
                   !.unimplemented = Append(@, plugin_name)]

\* a plausible slip: the validity of a contribution is memoized
Mutant_validate_plugin(q, plugin_name, plugin_cls) ==
    IF [plugin |-> plugin_name, obj |-> plugin_cls] \in Range(q.validated) THEN q
    ELSE LET q1 == [q EXCEPT !.validated =
                        Append(@, [plugin |-> plugin_name, obj |-> plugin_cls])]
         IN  IF valid_impl(plugin_cls)
             THEN [q1 EXCEPT !.out =
                       Append(@, [name |-> clean_plugin_name(plugin_name), obj |-> plugin_cls])]
             ELSE _warn_not_fully_implemented_error(q1, plugin_cls, plugin_name)

_validate_plugin(q, plugin_name, plugin_cls) ==
    LET q1 == [q EXCEPT !.validated =
                   Append(@, [plugin |-> plugin_name, obj |-> plugin_cls])]
    IN  IF valid_impl(plugin_cls)
        THEN [q1 EXCEPT !.out =
                  Append(@, [name |-> clean_plugin_name(plugin_name), obj |-> plugin_cls])]
        ELSE _warn_not_fully_implemented_error(q1, plugin_cls, plugin_name)

get_hookimpls(plugins, attr_name) ==
    SelectSeq(plugins, LAMBDA m : m.hooks[attr_name].shape # "none")

\* a plausible slip: a tuple is iterated like a generator
Mutant_Results(impl) ==
    [i \in DOMAIN impl.items |-> Obj(FALSE, <<impl.items[i]>>)]

\* the objects of a hook result that are validated one by one: the items
\* of a generator, else the result itself
Results(impl) ==
    IF impl.shape = "generator"
    THEN [i \in DOMAIN impl.items |-> Obj(FALSE, <<impl.items[i]>>)]
    ELSE IF impl.shape = "tuple" THEN <<Obj(TRUE, impl.items)>>
    ELSE <<Obj(FALSE, impl.items)>>

RECURSIVE ValidateResults(_, _, _, _)
ValidateResults(q, plugin_name, results, k) ==
    IF k > Len(results) THEN q
    ELSE ValidateResults(_validate_plugin(q, plugin_name, results[k]),
                         plugin_name, results, k + 1)

RECURSIVE HookimplLoop(_, _, _, _)
HookimplLoop(q, hookimpls, attr_name, k) ==
    IF k > Len(hookimpls) THEN q
    ELSE HookimplLoop(
             ValidateResults(q, hookimpls[k].name,
                             Results(hookimpls[k].hooks[attr_name]), 1),
             hookimpls, attr_name, k + 1)

\* a plausible slip: a name that is no hook has no implementations
Mutant_getattr_(reg, q, attr_name) ==
    IF reg.raised THEN [status |-> "ImportError", q |-> q]
    ELSE [status |-> "ok", q |-> q]

\* PluginManager.__getattr__, iterated to its end
getattr_(reg, q, attr_name) ==
    IF reg.raised THEN [status |-> "ImportError", q |-> q]
    ELSE IF attr_name \notin HookNames THEN [status |-> "ApeAttributeError", q |-> q]
    ELSE [status |-> "ok",
          q |-> HookimplLoop(q, get_hookimpls(reg.plugins, attr_name), attr_name, 1)]

----------------------------------------------------------------------------
(* The calls made on the PluginManager, one after the other.               *)

AttrNames == HookNames \cup {"foo"}

\* per discovered module, whether importlib.import_module succeeds: it does
\* for a module that was imported before (registered modules were)
ImportOutcomes ==
    IF registered_ THEN {[i \in DOMAIN installed |-> TRUE]}
    ELSE {ok \in [DOMAIN installed -> BOOLEAN] :
             \A i \in DOMAIN installed :
                 installed[i] \in Range(pluggy_plugins) => ok[i]}

PluginInit ==
    /\ NetworkManagerUnused
    /\ NotConnected
    /\ threads = NoThreads
    /\ installed \in InstalledModules
    /\ plugin_modules_ = [cached |-> FALSE, value |-> <<>>]
    /\ registered_ = FALSE
    /\ pluggy_plugins = <<>>
    /\ unimplemented_plugins_ = <<>>
    /\ warnings = <<>>
    /\ import_calls = [i \in DOMAIN installed |-> 0]
    /\ discover_calls = 0
    /\ validated = <<>>
    /\ queries = [h \in HookNames |-> 0]
    /\ calls = 0
    /\ plugin_call = [op |-> "idle"]

Registered(r) ==
    /\ plugin_modules_' = r.modules.cache
    /\ discover_calls' = discover_calls + r.modules.discovered
    /\ registered_' = r.st.registered
    /\ pluggy_plugins' = r.st.plugins
    /\ import_calls' = r.st.import_calls

\* registered_plugins, which calls _register_plugins
RegisterPlugins(ok) ==
    /\ calls < MaxCalls
    /\ LET r == _register_plugins(Registry, plugin_modules_, installed, ok)
       IN  /\ Registered(r)
           /\ warnings' = r.st.warnings
           /\ plugin_call' = [op |-> "register", attr |-> "",
                              status |-> IF r.st.raised THEN "ImportError" ELSE "ok",
                              out |-> <<>>,
                              ran |-> ~registered_, imports |-> ok,
                              before |-> pluggy_plugins]
    /\ calls' = calls + 1
    /\ UNCHANGED <<installed, unimplemented_plugins_, validated, queries,
                   net_vars, thread_vars, fork_vars>>

\* getattr(plugin_manager, attr_name), iterated to its end
Query(attr_name, ok) ==
    /\ calls < MaxCalls
    /\ LET r == _register_plugins(Registry, plugin_modules_, installed, ok)
           g == getattr_(r.st, [Yielded EXCEPT !.warnings = r.st.warnings], attr_name)
       IN  /\ Registered(r)
           /\ warnings' = g.q.warnings
           /\ unimplemented_plugins_' = g.q.unimplemented
           /\ validated' = g.q.validated
           /\ queries' = IF g.status = "ok"
                         THEN [queries EXCEPT ![attr_name] = @ + 1]
                         ELSE queries
           /\ plugin_call' = [op |-> "query", attr |-> attr_name,
                              status |-> g.status, out |-> g.q.out,
                              ran |-> ~registered_, imports |-> ok,
                              before |-> pluggy_plugins]
    /\ calls' = calls + 1
    /\ UNCHANGED <<installed,
                   net_vars, thread_vars, fork_vars>>

PluginNext ==
    \/ \E ok \in ImportOutcomes : RegisterPlugins(ok)
    \/ \E attr_name \in AttrNames, ok \in ImportOutcomes : Query(attr_name, ok)

SpecPlugins == PluginInit /\ [][PluginNext]_vars

----------------------------------------------------------------------------
(* Threads that make their first access to the PluginManager at the same   *)
(* time.  Each runs _register_plugins; a step is one read or write of the  *)
(* shared state.  importlib.import_module succeeds for every module.       *)

Thread(t, pc, i) == threads' = [threads EXCEPT ![t] = [pc |-> pc, i |-> i]]

\* if self.__registered: return
CheckRegistered(t) ==
    /\ threads[t].pc = "start"
    /\ Thread(t, IF registered_ THEN "done" ELSE "modules", 0)
    /\ UNCHANGED <<plugin_vars,
                   net_vars, fork_vars>>

\* self._plugin_modules: the read of the cached value
ReadPluginModules(t) ==
    /\ threads[t].pc = "modules"
    /\ Thread(t, IF plugin_modules_.cached THEN "loop" ELSE "discover", 1)
    /\ UNCHANGED <<plugin_vars,
                   net_vars, fork_vars>>

\* self._plugin_modules: the computation, and the store of its result
Discover(t) ==
    /\ threads[t].pc = "discover"
    /\ LET pm == _plugin_modules([cached |-> FALSE, value |-> <<>>], installed)
       IN  /\ plugin_modules_' = pm.cache
           /\ discover_calls' = discover_calls + pm.discovered
    /\ Thread(t, "loop", 1)
    /\ UNCHANGED <<installed, registered_, pluggy_plugins, unimplemented_plugins_,
                   warnings, import_calls, validated, queries, calls, plugin_call,
                   net_vars, fork_vars>>

\* one iteration of the loop
ImportStep(t) ==
    /\ threads[t].pc = "loop"
    /\ threads[t].i <= Len(plugin_modules_.value)
    /\ LET st == RegisterModule(Registry, installed, threads[t].i, TRUE)
       IN  /\ pluggy_plugins' = st.plugins
           /\ warnings' = st.warnings
           /\ import_calls' = st.import_calls
           /\ Thread(t, IF st.raised THEN "raised" ELSE "loop", threads[t].i + 1)
    /\ UNCHANGED <<installed, plugin_modules_, registered_, unimplemented_plugins_,
                   discover_calls, validated, queries, calls, plugin_call,
                   net_vars, fork_vars>>

\* self.__registered = True
SetRegistered(t) ==
    /\ threads[t].pc = "loop"
    /\ threads[t].i > Len(plugin_modules_.value)
    /\ registered_' = TRUE
    /\ Thread(t, "done", threads[t].i)
    /\ UNCHANGED <<installed, plugin_modules_, pluggy_plugins, unimplemented_plugins_,
                   warnings, import_calls, discover_calls, validated, queries, calls,
                   plugin_call,
                   net_vars, fork_vars>>

ThreadNext ==
    \E t \in 1..NumThreads :
        \/ CheckRegistered(t)
        \/ ReadPluginModules(t)
        \/ Discover(t)
        \/ ImportStep(t)
        \/ SetRegistered(t)

SpecThreads == PluginInit /\ [][ThreadNext]_vars

\* the (ecosystem, network, provider) a resolution ended with, and how
Triple(result) ==
    <<result.status, result.ecosystem, result.network, result.provider>>

\* the hierarchy can be read and holds the default ecosystem
DefaultEcosystemPresent ==
    /\ CurrentEcosystems.status = "ok"
    /\ HasKey(CurrentEcosystems.objs, CurrentDefaultName)

DefaultEcosystem == Get(CurrentEcosystems.objs, CurrentDefaultName)

DefaultNetwork ==
    Get(DefaultEcosystem.networks, DefaultEcosystem.default_network_name)

\* C11: for every provider p of the default ecosystem's default network, the
\* selectors "::p", "<default ecosystem>::p" and "<default ecosystem>:
\* <default network>:p" all resolve to (default ecosystem, default network, p).
C11_DefaultShorthandsAgree ==
    DefaultEcosystemPresent =>
        \A p \in Range(DefaultNetwork.providers) :
            LET d == CurrentDefaultName
                n == DefaultEcosystem.default_network_name
                want == <<"ok", d, n, p>>
            IN  /\ Triple(Resolve(Colon \o Colon \o p)) = want
                /\ Triple(Resolve(d \o Colon \o Colon \o p)) = want
                /\ Triple(Resolve(d \o Colon \o n \o Colon \o p)) = want

\* C11 witness: "::test" was resolved to the second provider of the default
\* network of a default ecosystem that is not the first of the hierarchy.
C11_Witness ==
    /\ net_call.op = "get_provider_from_choice"
    /\ net_call.arg = Colon \o Colon \o Test
    /\ net_call.result.status = "ok"
    /\ net_call.result.ecosystem = Fantom
    /\ Len(CurrentEcosystems.objs) >= 2
    /\ net_call.result.provider = Test
    /\ DefaultNetwork.default_provider_name = Geth

\* how a resolution ended: its triple, and the value an error names
Outcome(result) == Triple(result) \o <<result.value>>

UniqueNames(objs) ==
    \A i, j \in DOMAIN objs : objs[i].name = objs[j].name => i = j

\* the first custom network declared for the ecosystem name
FirstDeclared(ecosystem_name) ==
    custom_networks[CHOOSE k \in DOMAIN custom_networks :
                        /\ custom_networks[k].ecosystem = ecosystem_name
                        /\ \A j \in 1..(k - 1) :
                               custom_networks[j].ecosystem # ecosystem_name]

RECURSIVE AfterColons(_, _)
AfterColons(s, k) ==
    IF k = 0 \/ s = <<>> THEN s
    ELSE AfterColons(Tail(s), IF Head(s) = ":" THEN k - 1 ELSE k)

\* the last call resolved a selector that is not a bare custom-network
\* indicator and splits into more than three segments
LongSelectorResolved ==
    /\ net_call.op = "get_provider_from_choice"
    /\ net_call.arg # None
    /\ ~_is_custom_network(net_call.arg)
    /\ Len(split(net_call.arg, ":")) > 3

\* C15: a selector that splits into more than three segments resolves as the
\* three-segment case does with its first segment, its second segment and
\* everything after the second colon as the provider; when that provider
\* value is a custom-network indicator and the second segment is empty the
\* network is "custom", and a non-empty second segment is kept.
C15_LongSelectorsRejoined ==
    LongSelectorResolved =>
        LET segments == split(net_call.arg, ":")
            provider_value == AfterColons(net_call.arg, 2)
            network_name == IF _is_custom_network(provider_value) /\ segments[2] = <<>>
                            THEN Custom ELSE segments[2]
            read == CurrentEcosystems
            three == ResolveFull(read.objs, CurrentDefaultName, segments[1],
                                 network_name, provider_value)
        IN  net_call.result =
                IF read.status = "ok" THEN three
                ELSE Raise(read.status, None, SubSeq(three.lookups, 1, 1))

\* C15 witness: "ethereum::https://r" was resolved and the network looked up
\* in ethereum was "custom".
C15_Witness ==
    /\ net_call.op = "get_provider_from_choice"
    /\ net_call.arg = Ethereum \o Colon \o Colon \o HttpsUri
    /\ net_call.result.status = "NetworkNotFoundError"
    /\ net_call.result.value = Custom

\* the segments of a selector that name an ecosystem, a network or a
\* provider that the hierarchy does not hold
UnknownNames(objs, network_choice) ==
    LET segments == split(network_choice, ":")
    IN  {segments[1] : k \in {k \in {1} :
            Truthy(segments[1]) /\ segments[1] \notin ecosystem_names(objs)}}
        \cup {segments[2] : k \in {k \in {2} :
            /\ Len(segments) >= 2
            /\ Truthy(segments[2]) /\ segments[2] \notin network_names(objs)}}
        \cup {segments[3] : k \in {k \in {3} :
            /\ Len(segments) >= 3
            /\ Truthy(segments[3]) /\ segments[3] \notin provider_names(objs)}}

\* the last call resolved a selector of one, two or three segments
ShortSelectorResolved ==
    /\ net_call.op = "get_provider_from_choice"
    /\ net_call.arg # None
    /\ ~_is_custom_network(net_call.arg)
    /\ Len(split(net_call.arg, ":")) <= 3

\* C17: the resolution of a selector of one, two or three segments, one of
\* which names an ecosystem, a network or a provider that the hierarchy does
\* not hold, ends with EcosystemNotFoundError, NetworkNotFoundError or
\* NetworkError, and the error names one of the unknown values.
C17_TypedErrorNamesUnknown ==
    (ShortSelectorResolved
        /\ UnknownNames(ecosystem_objs.dict, net_call.arg) # {}) =>
        /\ net_call.result.status \in
               {"EcosystemNotFoundError", "NetworkNotFoundError", "NetworkError"}
        /\ net_call.result.value \in UnknownNames(ecosystem_objs.dict, net_call.arg)

\* the positions of the last get_network_choices output that hold `sel`
Positions(sel) ==
    {i \in DOMAIN net_call.result.out : net_call.result.out[i].sel = sel}

\* the one position that holds `sel`
Position(sel) == CHOOSE i \in Positions(sel) : TRUE

\* the positions of the selectors yielded for network n of ecosystem e
PositionsOf(e, n) ==
    {i \in DOMAIN net_call.result.out :
        /\ net_call.result.out[i].ecosystem = e
        /\ net_call.result.out[i].network = n}

\* a name passes an allow-list that is empty or holds it
Passes(name, filter) == filter = {} \/ name \in filter

\* the providers of network n of ecosystem e that survive the filters of the
\* last get_network_choices call, in declaration order
Survivors(e, n) ==
    IF /\ Passes(e.name, net_call.arg.ecosystem_filter)
       /\ Passes(n.name, net_call.arg.network_filter)
    THEN SelectSeq(n.providers, LAMBDA p : Passes(p, net_call.arg.provider_filter))
    ELSE <<>>

\* C18: in the output of get_network_choices, for each ecosystem e and each
\* network n of e: when no provider of n survives the filters nothing is
\* yielded for n; otherwise "e:n:p" is yielded once per surviving provider p,
\* in declaration order, and the network-level shorthands (":n" for the
\* default ecosystem, then "e:n") are yielded once each, immediately after
\* the last of them and before everything of a network declared later.  The
\* bare name e is yielded once, after every other selector of e, when some
\* network of e has a surviving provider, and not at all otherwise.
C18_OrderOfChoices ==
    ChoicesYielded =>
        \A x \in DOMAIN ecosystem_objs.dict :
            LET e == ecosystem_objs.dict[x]
                out == net_call.result.out
                is_default == e.name = CurrentDefaultName
                others == {i \in DOMAIN out : out[i].ecosystem = e.name
                                               /\ out[i].sel # e.name}
            IN  /\ \A y \in DOMAIN e.networks :
                       LET n == e.networks[y]
                           ps == Survivors(e, n)
                           short == e.name \o Colon \o n.name
                           full(k) == short \o Colon \o ps[k]
                           last == Position(full(Len(ps)))
                       IN  IF ps = <<>> THEN PositionsOf(e.name, n.name) = {}
                           ELSE /\ Cardinality(Positions(short)) = 1
                                /\ Cardinality(Positions(Colon \o n.name)
                                                   \cap PositionsOf(e.name, n.name)) =
                                       IF is_default THEN 1 ELSE 0
                                /\ \A k \in DOMAIN ps : Cardinality(Positions(full(k))) = 1
                                /\ \A k \in 1..(Len(ps) - 1) :
                                       Position(full(k)) < Position(full(k + 1))
                                /\ Position(short) = last + (IF is_default THEN 2 ELSE 1)
                                /\ is_default => Position(Colon \o n.name) = last + 1
                                /\ \A i \in PositionsOf(e.name, n.name) : i <= Position(short)
                                /\ \A z \in DOMAIN e.networks :
                                       z > y => \A i \in PositionsOf(e.name, e.networks[z].name) :
                                                    Position(short) < i
                /\ Cardinality(Positions(e.name)) =
                       IF \E y \in DOMAIN e.networks : Survivors(e, e.networks[y]) # <<>>
                       THEN 1 ELSE 0
                /\ \A i \in others : i < Position(e.name)

\* C18 witness: choices were yielded, under a provider filter, for a default
\* ecosystem with two networks that both keep a provider, and for a second
\* ecosystem after it.
C18_Witness ==
    /\ ChoicesYielded
    /\ net_call.arg.provider_filter = {Geth}
    /\ Len(ecosystem_objs.dict) = 2
    /\ ecosystem_objs.dict[1].name = CurrentDefaultName
    /\ Len(ecosystem_objs.dict[1].networks) = 2
    /\ \A y \in 1..2 :
           /\ Len(ecosystem_objs.dict[1].networks[y].providers) = 2
           /\ Survivors(ecosystem_objs.dict[1], ecosystem_objs.dict[1].networks[y]) = <<Geth>>
    /\ Positions(ecosystem_objs.dict[1].name) # {}
    /\ Positions(ecosystem_objs.dict[2].name) # {}

\* the last get_network_choices call yielded `sel` in the iteration of
\* provider p of network n of ecosystem e
YieldedFor(sel, e, n, p) ==
    \E i \in DOMAIN net_call.result.out :
        net_call.result.out[i] = Choice(sel, e, n, p)

\* C19: for every provider p of a network n of an ecosystem e of the
\* hierarchy that survives the filters of a get_network_choices call, the
\* call yields "e:n:p"; it yields "::p" exactly when e is the default
\* ecosystem and n is the default network of e; it yields ":n:p" when e is
\* the default ecosystem and "e::p" when n is the default network of e.
C19_ShorthandsPerTriple ==
    net_call.op = "get_network_choices" =>
        \A x \in DOMAIN ecosystem_objs.dict :
            LET e == ecosystem_objs.dict[x]
            IN  \A y \in DOMAIN e.networks :
                    LET n == e.networks[y]
                        ps == Survivors(e, n)
                        is_default == e.name = CurrentDefaultName
                        is_default_network == n.name = e.default_network_name
                    IN  \A k \in DOMAIN ps :
                            /\ YieldedFor(e.name \o Colon \o n.name \o Colon \o ps[k],
                                          e.name, n.name, ps[k])
                            /\ YieldedFor(Colon \o Colon \o ps[k], e.name, n.name, ps[k])
                                   <=> (is_default /\ is_default_network)
                            /\ is_default =>
                                   YieldedFor(Colon \o n.name \o Colon \o ps[k],
                                              e.name, n.name, ps[k])
                            /\ is_default_network =>
                                   YieldedFor(e.name \o Colon \o Colon \o ps[k],
                                              e.name, n.name, ps[k])

AllDeclaredHeld ==
    /\ ecosystem_objs.cached
    /\ \A k \in DOMAIN custom_networks :
           HasKey(ecosystem_objs.dict, custom_networks[k].ecosystem)

\* C22: the custom ecosystems are inserted into the cached dict of the plugin
\* contributions.  (a) A read made when the dict holds every declared name
\* changes nothing of it, and a second read under the same configuration
\* returns what the first returned.  (b) No step removes or replaces an
\* object of the dict, whatever the configuration has come to declare: once
\* the dict is cached it stays so and every read that completes returns the
\* objects it held before, in place.
C22_ClonesKept ==
    /\ [](LET first == CurrentEcosystems
              second == ecosystems([cached |-> TRUE, dict |-> first.objs],
                                   plugin_ecosystems, custom_networks,
                                   CurrentDefaultName)
          IN  second = first)
    /\ [][/\ AllDeclaredHeld => ecosystem_objs'.dict = ecosystem_objs.dict
          /\ ecosystem_objs.cached => ecosystem_objs'.cached
          /\ \A i \in DOMAIN ecosystem_objs.dict :
                 /\ i \in DOMAIN ecosystem_objs'.dict
                 /\ ecosystem_objs'.dict[i] = ecosystem_objs.dict[i]
          /\ (net_call'.op = "ecosystems" /\ net_call.op = "idle"
                  /\ net_call'.result.status = "ok") =>
                 /\ net_call'.result.objs = ecosystem_objs'.dict
                 /\ \A i \in DOMAIN ecosystem_objs.dict :
                        net_call'.result.objs[i] = ecosystem_objs.dict[i]]_vars

\* C22 witness: a read returned the custom ecosystem "cst", a copy of
\* "ethereum", after the configuration had dropped its declaration and "ftm"
\* had become the default.
C22_Witness ==
    /\ net_call.op = "ecosystems"
    /\ net_call.result.status = "ok"
    /\ custom_networks = <<>>
    /\ HasKey(net_call.result.objs, Cst)
    /\ Get(net_call.result.objs, Cst).cls = Ethereum
    /\ default_ecosystem_name_ = Fantom

\* C23: in a hierarchy that holds "ethereum", the resolution of a selector
\* that _is_custom_network classifies as a bare custom-network indicator
\* ("https://r", "ws://r", "n.ipc", ...) yields a handle of the custom
\* network whose settings carry the selector, and looks up no ecosystem that
\* a segment of the selector would name.
C23_ClassifiedYieldHandle ==
    (/\ net_call.op = "get_provider_from_choice"
     /\ net_call.arg # None
     /\ _is_custom_network(net_call.arg)
     /\ CurrentEcosystems.status = "ok"
     /\ HasKey(ecosystem_objs.dict, Ethereum)) =>
        /\ net_call.result.status = "ok"
        /\ net_call.result.network = Custom
        /\ \E key \in {"uri", "ipc_path"} :
               net_call.result.provider_settings = {<<key, net_call.arg>>}
        /\ net_call.result.lookups = <<Lookup("__getattr__", Ethereum)>>

----------------------------------------------------------------------------
(* Properties of the plugin registry.                                      *)

\* the last call was a query of `hook` that completed
QueryDone(hook) ==
    /\ plugin_call.op = "query"
    /\ plugin_call.status = "ok"
    /\ plugin_call.attr = hook

Count(log, entry) == Cardinality({i \in DOMAIN log : log[i] = entry})

\* the pairs the last query yielded under the cleaned name of `module`
PairsOf(module) ==
    SelectSeq(plugin_call.out, LAMBDA pair : pair.name = clean_plugin_name(module.name))

\* the third-party modules registered with pluggy that implement `hook`
\* with a class that has one unimplemented abstract method
InvalidThirdParty(hook) ==
    {i \in DOMAIN pluggy_plugins :
        /\ ~pluggy_plugins[i].core
        /\ \E k \in DOMAIN pluggy_plugins[i].hooks[hook].items :
               ~valid_class(pluggy_plugins[i].hooks[hook].items[k])}

\* C4 (as stated): after N >= 1 sequential calls that run _register_plugins,
\* the import step of every discovered module has run exactly once,
\* whatever the outcome of the imports.
C4_ImportedOnce ==
    calls >= 1 => \A i \in DOMAIN import_calls : import_calls[i] = 1

\* every thread has left _register_plugins
AllReturned == \A t \in 1..NumThreads : threads[t].pc \in {"done", "raised"}

\* C5 (as stated): when the threads that made their first access at the same
\* time have all returned, the discovery has run once, the import step of
\* every module has run once, and every thread returned normally and sees
\* the registered state.
C5_ConcurrentExactlyOnce ==
    AllReturned =>
        /\ discover_calls = 1
        /\ \A i \in DOMAIN import_calls : import_calls[i] = 1
        /\ \A t \in 1..NumThreads : threads[t].pc = "done"
        /\ registered_

\* the last call ran the loop of _register_plugins
LoopRan == plugin_call.op # "idle" /\ plugin_call.ran

\* the step of module i fails in a loop: its import fails, or pluggy refuses
\* to register a module that `before` holds already
StepFails(i, imports, before) == ~imports[i] \/ installed[i] \in Range(before)

\* the core modules whose step failed in the loop of the last call
CoreFailed ==
    {i \in DOMAIN installed :
        installed[i].core /\ StepFails(i, plugin_call.imports, plugin_call.before)}

\* C13: a loop in which the import or registration of a core module fails
\* raises to the caller.  A loop in which only third-party modules fail logs
\* a warning for each of them, registers every module whose import succeeded,
\* and completes; a completed query then yields pairs of registered modules
\* only, and yields the valid results of each of them.
C13_CoreRaisesThirdPartyWarns ==
    /\ (LoopRan /\ CoreFailed # {}) =>
           /\ plugin_call.status = "ImportError"
           /\ ~registered_
    /\ (LoopRan /\ CoreFailed = {}) =>
           /\ plugin_call.status # "ImportError"
           /\ registered_
           /\ \A i \in DOMAIN installed :
                  IF plugin_call.imports[i]
                  THEN installed[i] \in Range(pluggy_plugins)
                  ELSE /\ installed[i] \notin Range(pluggy_plugins)
                       /\ ErrorLoading(installed[i].name) \in Range(warnings)
    /\ \A hook \in HookNames :
           QueryDone(hook) =>
               \A i \in DOMAIN installed :
                   IF installed[i] \in Range(pluggy_plugins)
                   THEN (/\ installed[i].hooks[hook].items # <<>>
                         /\ \A k \in DOMAIN installed[i].hooks[hook].items :
                                valid_class(installed[i].hooks[hook].items[k]))
                            => PairsOf(installed[i]) # <<>>
                   ELSE PairsOf(installed[i]) = <<>>

\* C13 witness: the import of the third-party module, first in the loop,
\* failed; the core module after it was registered and its result yielded.
C13_Witness ==
    /\ QueryDone("ecosystems")
    /\ LoopRan
    /\ Len(installed) = 2
    /\ ~installed[1].core
    /\ ~plugin_call.imports[1]
    /\ installed[1].hooks["ecosystems"].items # <<>>
    /\ pluggy_plugins = <<installed[2]>>
    /\ PairsOf(installed[2]) # <<>>
    /\ Len(plugin_call.out) = Len(PairsOf(installed[2]))

\* C16 (as stated): a query of a name that is no hook ends with
\* ApeAttributeError, and a query of a hook that no registered module
\* implements ends without error and yields nothing.
C16_UnknownHookAttributeError ==
    plugin_call.op = "query" =>
        /\ plugin_call.attr \notin HookNames =>
               plugin_call.status = "ApeAttributeError"
        /\ (/\ plugin_call.attr \in HookNames
            /\ get_hookimpls(pluggy_plugins, plugin_call.attr) = <<>>) =>
               /\ plugin_call.status = "ok"
               /\ plugin_call.out = <<>>

\* C16 (amended): a query whose registration loop meets a failing core module
\* ends with that module's error, whatever the name queried.  Every other
\* query of a name that is no hook ends with ApeAttributeError and yields
\* nothing, and every other query of a hook that no registered module
\* implements ends without error and yields nothing.
C16_AttributeErrorAfterRegistration ==
    plugin_call.op = "query" =>
        IF LoopRan /\ CoreFailed # {}
        THEN plugin_call.status = "ImportError"
        ELSE /\ plugin_call.attr \notin HookNames =>
                    /\ plugin_call.status = "ApeAttributeError"
                    /\ plugin_call.out = <<>>
             /\ (/\ plugin_call.attr \in HookNames
                 /\ get_hookimpls(pluggy_plugins, plugin_call.attr) = <<>>) =>
                    /\ plugin_call.status = "ok"
                    /\ plugin_call.out = <<>>

\* C16 witness: "foo" was queried and ended with ApeAttributeError, after a
\* query of "providers", which no registered module implements, had ended
\* without error.
C16_Witness ==
    /\ plugin_call.op = "query"
    /\ plugin_call.attr = "foo"
    /\ plugin_call.status = "ApeAttributeError"
    /\ pluggy_plugins # <<>>
    /\ get_hookimpls(pluggy_plugins, "providers") = <<>>
    /\ queries["providers"] >= 1

\* the position in a loop at which the step of a core module first fails,
\* past the last module when none does
FirstCoreFailure(imports, before) ==
    LET failed == {i \in DOMAIN installed :
                      installed[i].core /\ StepFails(i, imports, before)}
    IN  IF failed = {} THEN Len(installed) + 1
        ELSE CHOOSE i \in failed : \A j \in failed : i <= j

C6_InvalidExcludedWarnedOnce ==
    \A hook \in HookNames :
        QueryDone(hook) =>
            \A i \in InvalidThirdParty(hook) :
                LET module == pluggy_plugins[i]
                    items == module.hooks[hook].items
                IN  /\ \A k \in DOMAIN items :
                           ~valid_class(items[k]) =>
                               \A j \in DOMAIN plugin_call.out :
                                   items[k] \notin Range(plugin_call.out[j].obj.items)
                    /\ Count(warnings, NotFullyImplemented(module.name)) = 1
                    /\ \A o \in DOMAIN pluggy_plugins \ {i} :
                           \A k \in DOMAIN pluggy_plugins[o].hooks[hook].items :
                               \E j \in DOMAIN PairsOf(pluggy_plugins[o]) :
                                   pluggy_plugins[o].hooks[hook].items[k]
                                       \in Range(PairsOf(pluggy_plugins[o])[j].obj.items)

\* C6 witness: the second query of "ecosystems" completed with an invalid
\* third-party class registered next to a core plugin whose class is yielded.
C6_Witness ==
    /\ QueryDone("ecosystems")
    /\ queries["ecosystems"] = 2
    /\ InvalidThirdParty("ecosystems") # {}
    /\ Len(pluggy_plugins) = 2
    /\ plugin_call.out # <<>>

\* C7 (as stated): no contribution is passed to the validity check more
\* than once.
C7_ValidatedOnce ==
    \A i \in DOMAIN validated : Count(validated, validated[i]) <= 1

\* C7 (amended): every completed query of a hook validates every result of
\* every registered implementation of that hook again, so a contribution has
\* been validated once per completed query of its hook; only the warning is
\* remembered, at most one per plugin name.
C7_ValidatedPerQuery ==
    /\ \A i \in DOMAIN pluggy_plugins : \A hook \in HookNames :
           LET impl == pluggy_plugins[i].hooks[hook]
               objs == IF impl.shape = "generator"
                       THEN {Obj(FALSE, <<impl.items[k]>>) : k \in DOMAIN impl.items}
                       ELSE IF impl.shape = "none" THEN {}
                       ELSE {Obj(impl.shape = "tuple", impl.items)}
           IN  \A obj \in objs :
                   Count(validated, [plugin |-> pluggy_plugins[i].name, obj |-> obj])
                       = queries[hook]
    /\ \A i \in DOMAIN installed :
           Count(warnings, NotFullyImplemented(installed[i].name)) <= 1

\* C7 witness: a hook with a registered contribution was queried twice.
C7_Witness ==
    /\ QueryDone("ecosystems")
    /\ queries["ecosystems"] = 2
    /\ \E i \in DOMAIN validated : Count(validated, validated[i]) = 2

\* the classes of the hook result of `module`, when all of them are valid
ValidItems(module, hook) ==
    IF \A k \in DOMAIN module.hooks[hook].items : valid_class(module.hooks[hook].items[k])
    THEN module.hooks[hook].items
    ELSE <<>>

\* C8 (as stated): whatever the shape of a hook result, a result of k valid
\* classes yields k pairs, one per class.
C8_OnePairPerValue ==
    \A hook \in HookNames :
        QueryDone(hook) =>
            \A i \in DOMAIN pluggy_plugins :
                LET items == ValidItems(pluggy_plugins[i], hook)
                    pairs == PairsOf(pluggy_plugins[i])
                IN  /\ Len(pairs) = Len(items)
                    /\ \A k \in DOMAIN items : pairs[k].obj = Obj(FALSE, <<items[k]>>)

\* C8 (amended): a generator yields one pair per valid class it produces, in
\* order; a single value or a tuple yields one pair that holds the whole
\* result when every class in it is valid, and no pair otherwise.
C8_PairsByShape ==
    \A hook \in HookNames :
        QueryDone(hook) =>
            \A i \in DOMAIN pluggy_plugins :
                LET impl == pluggy_plugins[i].hooks[hook]
                    valid == SelectSeq(impl.items, valid_class)
                    pairs == PairsOf(pluggy_plugins[i])
                IN  IF impl.shape = "generator"
                    THEN /\ Len(pairs) = Len(valid)
                         /\ \A k \in DOMAIN valid : pairs[k].obj = Obj(FALSE, <<valid[k]>>)
                    ELSE IF impl.shape = "none" THEN pairs = <<>>
                    ELSE IF Len(valid) = Len(impl.items)
                         THEN /\ Len(pairs) = 1
                              /\ pairs[1].obj = Obj(impl.shape = "tuple", impl.items)
                         ELSE pairs = <<>>

\* C8 witness: a query completed over a registered tuple of two valid classes.
C8_Witness ==
    /\ QueryDone("ecosystems")
    /\ \E i \in DOMAIN pluggy_plugins :
           /\ pluggy_plugins[i].hooks["ecosystems"].shape = "tuple"
           /\ Len(ValidItems(pluggy_plugins[i], "ecosystems")) = MaxItems
           /\ Len(PairsOf(pluggy_plugins[i])) = 1

----------------------------------------------------------------------------
(* Properties of fork.                                                     *)

\* the dict under fork -> ecosystem_name -> network_name of `settings`,
\* the empty dict when the path is not there
AtPath(settings, ecosystem_name, network_name) ==
    IF /\ ForkKey \in DOMAIN settings
       /\ IsDict(settings[ForkKey])
       /\ ecosystem_name \in DOMAIN settings[ForkKey].dict
       /\ IsDict(settings[ForkKey].dict[ecosystem_name])
       /\ network_name \in DOMAIN settings[ForkKey].dict[ecosystem_name].dict
       /\ IsDict(settings[ForkKey].dict[ecosystem_name].dict[network_name])
    THEN settings[ForkKey].dict[ecosystem_name].dict[network_name].dict
    ELSE EmptyDict

\* the last call of fork returned a handle
Forked == fork_call.op = "fork" /\ fork_call.result.status = "ok"

CallerSettings ==
    IF fork_call.provider_settings.is_none THEN EmptyDict
    ELSE fork_call.provider_settings.value

C10_RelativeBlockNumber ==
    (/\ fork_call.op = "fork"
     /\ ~fork_call.block_number.is_none
     /\ HasKey(active.ecosystem.networks, active.network \o ForkSuffix)) =>
        LET b == fork_call.block_number.value
            H == IF active.latest.is_none THEN 0 ELSE active.latest.value
            result == fork_call.result
        IN  IF b < 0 /\ H + b < 0
            THEN /\ result.status = "NetworkError"
                 /\ result.message = "Unable to fork past genesis block."
                 /\ result.provider = None
            ELSE /\ result.message = ""
                 /\ result.fork_settings[BlockNumberKey] = Leaf(IF b < 0 THEN H + b ELSE b)
                 /\ (/\ result.status = "ok"
                     /\ BlockNumberKey \notin
                            DOMAIN AtPath(CallerSettings, active.ecosystem.name,
                                          active.network)) =>
                        AtPath(result.provider_settings, active.ecosystem.name,
                               active.network)[BlockNumberKey]
                            = Leaf(IF b < 0 THEN H + b ELSE b)

\* C10 witness: fork(block_number=-1) at the highest head returned a handle
\* that forks at the block before the head.
C10_Witness ==
    /\ Forked
    /\ ~fork_call.block_number.is_none
    /\ fork_call.block_number.value = 0 - 1
    /\ ~active.latest.is_none
    /\ active.latest.value = MaxHead
    /\ AtPath(fork_call.result.provider_settings, active.ecosystem.name,
              active.network)[BlockNumberKey] = Leaf(MaxHead - 1)

=============================================================================
